---- MODULE Spec2Model ----
(***************************************************************************)
(* Model of two pieces of the Hydrogen CLI repository:                     *)
(*   - the `link` command's linkStorefront / createNewStorefront workflow  *)
(*     (src/unnamed/part_000, lines 86-207), specification Spec;           *)
(*   - the demo-store worker's fetch handler                               *)
(*     (src/templates/demo-store/server.ts), specification SpecWorker.     *)
(* Every await of the source is a program position (pc); the external      *)
(* collaborators (prompts, remote API, config store, Remix handler) answer *)
(* nondeterministically: they return a value from a small set or throw.    *)
(***************************************************************************)
EXTENDS Naturals, Sequences, FiniteSets

VARIABLES
    config,             \* ShopifyConfig handed to linkStorefront: [shop, storefront]
    force,              \* the force option
    flagStorefront,     \* the flagStorefront option
    pc,                 \* position of the linkStorefront invocation
    storefronts,        \* const storefronts (line 110)
    selectedStorefront, \* let selectedStorefront (line 112)
    projectName,        \* const projectName (line 170)
    storefront,         \* let storefront of createNewStorefront (line 175)
    jobId,              \* let jobId of createNewStorefront (line 176)
    stored,             \* the Local Config Store's storefront entry for root
    outcome,            \* how the invocation ended: [kind, value, error]
    log,                \* external calls issued by the invocation, in order
    wpc,                \* position of the worker's current fetch() call
    env,                \* the worker's Env: its SESSION_SECRET
    cachesOpen,         \* state of the caches.open('hydrogen') promise
    sessionInit,        \* state of the HydrogenSession.init(...) promise
    response,           \* status of `response` (line 86)
    settled,            \* how the promise returned by fetch() settled
    errors,             \* number of console.error calls made by the worker
    served              \* settlements of the fetch() calls finished so far

linkVars == <<config, force, flagStorefront, pc, storefronts, selectedStorefront,
              projectName, storefront, jobId, stored, outcome, log>>
workerVars == <<wpc, env, cachesOpen, sessionInit, response, settled, errors, served>>
vars == <<linkVars, workerVars>>

----------------------------------------------------------------------------
\* Bounds of the model.

\* Longest storefront list the remote directory returns.
MaxStorefronts == 2
\* Number of fetch() calls the worker serves in one behaviour.
MaxRequests == 2

----------------------------------------------------------------------------
\* JavaScript values.

\* The value `undefined` (also used for the select prompt's null sentinel,
\* which the code only tests for truthiness).
Undef == "<undefined>"

\* JavaScript truthiness of a string | undefined | null value.
Truthy(v) == v # Undef /\ v # ""

\* `undefined` where a HydrogenStorefront is expected; reading .id through
\* optional chaining yields undefined.
NoStorefront == [id |-> Undef, title |-> Undef, productionUrl |-> Undef]

Ids == {"gid1", "gid2", "gid3"}
Titles == {"A", "B"}
Shops == {"shop.myshopify.com"}

\* interface HydrogenStorefront
ProductionUrl(id) == "https://" \o id
HydrogenStorefront == {[id |-> i, title |-> t, productionUrl |-> ProductionUrl(i)] :
                          i \in Ids, t \in Titles}

\* What the remote directory can answer: lists without repeated ids
\* (titles may repeat), at most MaxStorefronts long.
RECURSIVE DistinctIds(_)
DistinctIds(s) ==
    \/ s = <<>>
    \/ /\ \A k \in 2..Len(s) : s[k].id # s[1].id
       /\ DistinctIds(Tail(s))
StorefrontLists ==
    UNION {{s \in [1..n -> HydrogenStorefront] : DistinctIds(s)} : n \in 0..MaxStorefronts}

\* Array.prototype.find: the first element satisfying the test, else undefined.
RECURSIVE FindByTitle(_, _)
FindByTitle(list, title) ==
    IF list = <<>> THEN NoStorefront
    ELSE IF list[1].title = title THEN list[1]
    ELSE FindByTitle(Tail(list), title)

RECURSIVE FindById(_, _)
FindById(list, id) ==
    IF list = <<>> THEN NoStorefront
    ELSE IF list[1].id = id THEN list[1]
    ELSE FindById(Tail(list), id)

\* The values of the select prompt's choices: null first, then every id.
Choices(list) == {Undef} \cup {list[k].id : k \in 1..Len(list)}

\* Names the text prompt can return: the titleized directory name offered as
\* default, or what the user typed instead.
DefaultName == "My Cool Shop"
ProjectNames == {DefaultName, "Custom"}

\* What createStorefront can resolve to.
NewId == "gidNew"
JobIds == {Undef, "job1"}
Created(name) == [id |-> NewId, title |-> name, productionUrl |-> ProductionUrl(NewId)]

\* Possible local configs: shop missing, empty or set; storefront absent,
\* present with an empty id, or present and linked.
ConfigStorefronts ==
    {NoStorefront} \cup
    {[id |-> i, title |-> t, productionUrl |-> Undef] : i \in {"", "gid1"}, t \in {"A"}}
Configs == [shop : Shops \cup {Undef, ""}, storefront : ConfigStorefronts]

Running == [kind |-> "running", value |-> NoStorefront, error |-> Undef]
Returned(v) == [kind |-> "returned", value |-> v, error |-> Undef]
Threw(e) == [kind |-> "threw", value |-> NoStorefront, error |-> e]
Interrupted == [kind |-> "interrupted", value |-> NoStorefront, error |-> Undef]

\* The two AbortErrors the code constructs (lines 97 and 201).
NoShopError == "AbortError: No shop found in local config, login first."
UnknownError == "AbortError: Unknown error ocurred."

\* Events of the trace `log`: a call f being issued is the event f, its
\* result is f:ok (or the answer given to a prompt), f:throw or f:interrupted.
Ok(f) == f \o ":ok"
Thrown(f) == f \o ":throw"
Answer(f, a) == f \o ":" \o a

\* Number of occurrences of event e in trace s.
RECURSIVE Count(_, _)
Count(s, e) ==
    IF s = <<>> THEN 0
    ELSE (IF s[1] = e THEN 1 ELSE 0) + Count(Tail(s), e)

\* The awaits on prompts and on remote calls.
Prompts == {"renderConfirmationPrompt", "renderSelectPrompt", "renderTextPrompt"}
RemoteCalls == {"getStorefronts", "createStorefront", "waitForJob"}

----------------------------------------------------------------------------
\* linkStorefront and createNewStorefront

WorkerIdle ==
    /\ wpc = "idle"
    /\ env = Undef
    /\ cachesOpen = "none"
    /\ sessionInit = "none"
    /\ response = 0
    /\ settled = "none"
    /\ errors = 0
    /\ served = <<>>

LinkInit ==
    /\ config \in Configs
    /\ force \in BOOLEAN
    /\ flagStorefront \in {Undef, ""} \cup Titles
    /\ pc = "start"
    /\ storefronts = <<>>
    /\ selectedStorefront = NoStorefront
    /\ projectName = Undef
    /\ storefront = NoStorefront
    /\ jobId = Undef
    /\ stored = config.storefront
    /\ outcome = Running
    /\ log = <<>>

Init == LinkInit /\ WorkerIdle

\* Lines 160-164: persist the selection if there is one, then return it.
\* setStorefront is awaited, so the return happens in SetStorefrontReturn.
\* `trace` is the log up to this point.
Persist(selected, trace) ==
    /\ selectedStorefront' = selected
    /\ IF selected # NoStorefront
       THEN /\ pc' = "setStorefront"
            /\ log' = Append(trace, "setStorefront")
            /\ outcome' = outcome
       ELSE /\ pc' = "done"
            /\ log' = trace
            /\ outcome' = Returned(NoStorefront)
    /\ stored' = stored

\* Line 110: the getStorefronts call is issued.
CallGetStorefronts(trace) ==
    /\ pc' = "getStorefronts"
    /\ log' = Append(trace, "getStorefronts")
    /\ outcome' = outcome

\* LinkStorefrontEnter without the shop check of lines 96-98.
LinkStorefrontEnterNoShopCheck ==
    /\ pc = "start"
    /\ IF Truthy(config.storefront.id) /\ ~force
       THEN /\ pc' = "renderConfirmationPrompt"
            /\ log' = Append(log, "renderConfirmationPrompt")
            /\ outcome' = outcome
       ELSE CallGetStorefronts(log)
    /\ UNCHANGED <<workerVars, config, force, flagStorefront, storefronts,
                   selectedStorefront, projectName, storefront, jobId, stored>>

\* LinkStorefrontEnter with `&& !force` dropped from line 100.
LinkStorefrontEnterIgnoreForce ==
    /\ pc = "start"
    /\ IF ~Truthy(config.shop)
       THEN /\ pc' = "done"
            /\ outcome' = Threw(NoShopError)
            /\ log' = log
       ELSE IF Truthy(config.storefront.id)
       THEN /\ pc' = "renderConfirmationPrompt"
            /\ log' = Append(log, "renderConfirmationPrompt")
            /\ outcome' = outcome
       ELSE CallGetStorefronts(log)
    /\ UNCHANGED <<workerVars, config, force, flagStorefront, storefronts,
                   selectedStorefront, projectName, storefront, jobId, stored>>

\* Lines 96-110, up to the first await.
LinkStorefrontEnter ==
    /\ pc = "start"
    /\ IF ~Truthy(config.shop)
       THEN /\ pc' = "done"
            /\ outcome' = Threw(NoShopError)
            /\ log' = log
       ELSE IF Truthy(config.storefront.id) /\ ~force
       THEN /\ pc' = "renderConfirmationPrompt"
            /\ log' = Append(log, "renderConfirmationPrompt")
            /\ outcome' = outcome
       ELSE CallGetStorefronts(log)
    /\ UNCHANGED <<workerVars, config, force, flagStorefront, storefronts,
                   selectedStorefront, projectName, storefront, jobId, stored>>

\* RenderConfirmationPromptReturn without the early return of lines 105-107.
RenderConfirmationPromptReturnIgnored ==
    /\ pc = "renderConfirmationPrompt"
    /\ \E overwriteLink \in BOOLEAN :
         CallGetStorefronts(Append(log, Answer("renderConfirmationPrompt",
                                               IF overwriteLink THEN "true" ELSE "false")))
    /\ UNCHANGED <<workerVars, config, force, flagStorefront, storefronts,
                   selectedStorefront, projectName, storefront, jobId, stored>>

\* Lines 101-110: the confirmation prompt answers.
RenderConfirmationPromptReturn ==
    /\ pc = "renderConfirmationPrompt"
    /\ \E overwriteLink \in BOOLEAN :
         IF ~overwriteLink
         THEN /\ pc' = "done"
              /\ outcome' = Returned(NoStorefront)
              /\ log' = Append(log, Answer("renderConfirmationPrompt", "false"))
         ELSE CallGetStorefronts(Append(log, Answer("renderConfirmationPrompt", "true")))
    /\ UNCHANGED <<workerVars, config, force, flagStorefront, storefronts,
                   selectedStorefront, projectName, storefront, jobId, stored>>

\* Lines 119-134: the not-found warning and the return of undefined.
NotFound(trace) ==
    /\ pc' = "done"
    /\ log' = Append(trace, "renderWarning")
    /\ outcome' = Returned(NoStorefront)
    /\ selectedStorefront' = NoStorefront
    /\ stored' = stored

\* GetStorefrontsReturn falling back to the select prompt when the flag
\* matches no title, instead of warning and returning.
GetStorefrontsReturnFallback ==
    /\ pc = "getStorefronts"
    /\ \E list \in StorefrontLists :
         /\ storefronts' = list
         /\ IF Truthy(flagStorefront) /\ FindByTitle(list, flagStorefront) # NoStorefront
            THEN Persist(FindByTitle(list, flagStorefront),
                         Append(log, Ok("getStorefronts")))
            ELSE /\ pc' = "renderSelectPrompt"
                 /\ log' = log \o <<Ok("getStorefronts"), "renderSelectPrompt">>
                 /\ UNCHANGED <<selectedStorefront, stored, outcome>>
    /\ UNCHANGED <<workerVars, config, force, flagStorefront, projectName, storefront, jobId>>

\* Lines 110-151: the list arrives; flag branch or select prompt.
GetStorefrontsReturn ==
    /\ pc = "getStorefronts"
    /\ \E list \in StorefrontLists :
         /\ storefronts' = list
         /\ IF Truthy(flagStorefront)
            THEN IF FindByTitle(list, flagStorefront) = NoStorefront
                 THEN NotFound(Append(log, Ok("getStorefronts")))
                 ELSE Persist(FindByTitle(list, flagStorefront),
                              Append(log, Ok("getStorefronts")))
            ELSE /\ pc' = "renderSelectPrompt"
                 /\ log' = log \o <<Ok("getStorefronts"), "renderSelectPrompt">>
                 /\ UNCHANGED <<selectedStorefront, stored, outcome>>
    /\ UNCHANGED <<workerVars, config, force, flagStorefront, projectName, storefront, jobId>>

\* RenderSelectPromptReturn fetching the list again before creating.
RenderSelectPromptReturnRefetch ==
    /\ pc = "renderSelectPrompt"
    /\ \E storefrontId \in Choices(storefronts) :
         IF Truthy(storefrontId)
         THEN Persist(FindById(storefronts, storefrontId),
                      Append(log, Answer("renderSelectPrompt", "id")))
         ELSE /\ pc' = "renderTextPrompt"
              /\ log' = log \o <<Answer("renderSelectPrompt", "null"),
                                 "getStorefronts", Ok("getStorefronts"),
                                 "createNewStorefront", "renderTextPrompt">>
              /\ UNCHANGED <<selectedStorefront, stored, outcome>>
    /\ UNCHANGED <<workerVars, config, force, flagStorefront, storefronts,
                   projectName, storefront, jobId>>

\* Lines 148-173: the select prompt answers; a real id is looked up in the
\* fetched list, the null sentinel enters createNewStorefront, which prompts
\* for the name.
RenderSelectPromptReturn ==
    /\ pc = "renderSelectPrompt"
    /\ \E storefrontId \in Choices(storefronts) :
         IF Truthy(storefrontId)
         THEN Persist(FindById(storefronts, storefrontId),
                      Append(log, Answer("renderSelectPrompt", "id")))
         ELSE /\ pc' = "renderTextPrompt"
              /\ log' = log \o <<Answer("renderSelectPrompt", "null"),
                                 "createNewStorefront", "renderTextPrompt">>
              /\ UNCHANGED <<selectedStorefront, stored, outcome>>
    /\ UNCHANGED <<workerVars, config, force, flagStorefront, storefronts,
                   projectName, storefront, jobId>>

\* Lines 170-182: the name arrives; renderTasks starts the first task, which
\* calls createStorefront.
RenderTextPromptReturn ==
    /\ pc = "renderTextPrompt"
    /\ \E name \in ProjectNames : projectName' = name
    /\ pc' = "createStorefront"
    /\ log' = log \o <<Ok("renderTextPrompt"), "createStorefront">>
    /\ UNCHANGED <<workerVars, config, force, flagStorefront, storefronts,
                   selectedStorefront, storefront, jobId, stored, outcome>>

\* Lines 200-206 and 156-164: the final check of createNewStorefront and, on
\* success, the caller's persist step.
FinalCheck(held, trace) ==
    IF held = NoStorefront
    THEN /\ pc' = "done"
         /\ outcome' = Threw(UnknownError)
         /\ log' = trace
         /\ UNCHANGED <<selectedStorefront, stored>>
    ELSE Persist(held, trace)

\* CreateStorefrontReturn persisting the new storefront before the job wait.
CreateStorefrontReturnEager ==
    /\ pc = "createStorefront"
    /\ \E job \in JobIds :
         /\ storefront' = Created(projectName)
         /\ jobId' = job
         /\ IF ~Truthy(job)
            THEN FinalCheck(Created(projectName), Append(log, Ok("createStorefront")))
            ELSE /\ pc' = "waitForJob"
                 /\ log' = log \o <<Ok("createStorefront"), "setStorefront",
                                    Ok("setStorefront"), "waitForJob">>
                 /\ stored' = Created(projectName)
                 /\ UNCHANGED <<selectedStorefront, outcome>>
    /\ UNCHANGED <<workerVars, config, force, flagStorefront, storefronts, projectName>>

\* CreateStorefrontReturn without the skip predicate of line 196.
CreateStorefrontReturnNoSkip ==
    /\ pc = "createStorefront"
    /\ \E job \in JobIds :
         /\ storefront' = Created(projectName)
         /\ jobId' = job
         /\ pc' = "waitForJob"
         /\ log' = log \o <<Ok("createStorefront"), "waitForJob">>
         /\ UNCHANGED <<selectedStorefront, stored, outcome>>
    /\ UNCHANGED <<workerVars, config, force, flagStorefront, storefronts, projectName>>

\* Lines 182-198: createStorefront resolves; the second task is skipped when
\* there is no jobId, otherwise it calls waitForJob.
CreateStorefrontReturn ==
    /\ pc = "createStorefront"
    /\ \E job \in JobIds :
         /\ storefront' = Created(projectName)
         /\ jobId' = job
         /\ IF ~Truthy(job)
            THEN FinalCheck(Created(projectName), Append(log, Ok("createStorefront")))
            ELSE /\ pc' = "waitForJob"
                 /\ log' = log \o <<Ok("createStorefront"), "waitForJob">>
                 /\ UNCHANGED <<selectedStorefront, stored, outcome>>
    /\ UNCHANGED <<workerVars, config, force, flagStorefront, storefronts, projectName>>

\* CreateStorefrontThrow with the rejection swallowed by the task, so that
\* only the final check reports it.
CreateStorefrontThrowSwallowed ==
    /\ pc = "createStorefront"
    /\ FinalCheck(NoStorefront, Append(log, Thrown("createStorefront")))
    /\ UNCHANGED <<workerVars, config, force, flagStorefront, storefronts,
                   projectName, storefront, jobId>>

\* Line 182 rejects: nothing catches it in the task, in createNewStorefront
\* or in linkStorefront.
CreateStorefrontThrow ==
    /\ pc = "createStorefront"
    /\ pc' = "done"
    /\ outcome' = Threw("createStorefront error")
    /\ log' = Append(log, Thrown("createStorefront"))
    /\ UNCHANGED <<workerVars, config, force, flagStorefront, storefronts,
                   selectedStorefront, projectName, storefront, jobId, stored>>

\* Lines 191, 198-206: the job finished.
WaitForJobReturn ==
    /\ pc = "waitForJob"
    /\ FinalCheck(storefront, Append(log, Ok("waitForJob")))
    /\ UNCHANGED <<workerVars, config, force, flagStorefront, storefronts,
                   projectName, storefront, jobId>>

\* WaitForJobThrow without the try/catch of lines 190-194.
WaitForJobThrowRethrown ==
    /\ pc = "waitForJob"
    /\ pc' = "done"
    /\ outcome' = Threw("waitForJob error")
    /\ log' = Append(log, Thrown("waitForJob"))
    /\ UNCHANGED <<workerVars, config, force, flagStorefront, storefronts,
                   selectedStorefront, projectName, storefront, jobId, stored>>

\* Lines 192-194, 198-206: the job failed; the catch clears storefront.
WaitForJobThrow ==
    /\ pc = "waitForJob"
    /\ storefront' = NoStorefront
    /\ FinalCheck(NoStorefront, Append(log, Thrown("waitForJob")))
    /\ UNCHANGED <<workerVars, config, force, flagStorefront, storefronts,
                   projectName, jobId>>

\* Lines 161-164: setStorefront wrote the config; the selection is returned.
\* (A failure of the local config write itself is outside the model.)
SetStorefrontReturn ==
    /\ pc = "setStorefront"
    /\ stored' = selectedStorefront
    /\ pc' = "done"
    /\ outcome' = Returned(selectedStorefront)
    /\ log' = Append(log, Ok("setStorefront"))
    /\ UNCHANGED <<workerVars, config, force, flagStorefront, storefronts,
                   selectedStorefront, projectName, storefront, jobId>>

\* A prompt or getStorefronts rejects (lines 101, 110, 148, 170): no handler
\* is in scope, the error propagates out of linkStorefront.
AwaitThrow ==
    /\ pc \in Prompts \cup {"getStorefronts"}
    /\ outcome' = Threw(pc \o " error")
    /\ log' = Append(log, Thrown(pc))
    /\ pc' = "done"
    /\ UNCHANGED <<workerVars, config, force, flagStorefront, storefronts,
                   selectedStorefront, projectName, storefront, jobId, stored>>

\* The process is interrupted while suspended on a prompt or a remote call.
Interrupt ==
    /\ pc \in Prompts \cup RemoteCalls
    /\ outcome' = Interrupted
    /\ log' = Append(log, Answer(pc, "interrupted"))
    /\ pc' = "done"
    /\ UNCHANGED <<workerVars, config, force, flagStorefront, storefronts,
                   selectedStorefront, projectName, storefront, jobId, stored>>

Next ==
    \/ LinkStorefrontEnter
    \/ RenderConfirmationPromptReturn
    \/ GetStorefrontsReturn
    \/ RenderSelectPromptReturn
    \/ RenderTextPromptReturn
    \/ CreateStorefrontReturn
    \/ CreateStorefrontThrow
    \/ WaitForJobReturn
    \/ WaitForJobThrow
    \/ SetStorefrontReturn
    \/ AwaitThrow
    \/ Interrupt

Spec == Init /\ [][Next]_vars

----------------------------------------------------------------------------
\* Properties of linkStorefront and createNewStorefront (under Spec).

N(e) == Count(log, e)
Has(e) == N(e) > 0
Linked == Truthy(config.storefront.id)
\* How often an issued call f has come back with a result.
Completed(f) ==
    N(Ok(f)) + N(Answer(f, "true")) + N(Answer(f, "false"))
             + N(Answer(f, "id")) + N(Answer(f, "null"))
ReturnedStorefront == outcome.kind = "returned" /\ outcome.value # NoStorefront

\* C1: setStorefront is called at most once, only after every prompt and
\* remote call of the invocation has come back with a result and with a
\* resolved selection; the config is written exactly when the invocation
\* returns a storefront (the one written); in every other state, interrupted
\* and failed invocations included, the store holds what it held at the start.
C1_WriteAtMostOnceAfterResolution ==
    /\ N("setStorefront") <= 1
    /\ N(Ok("setStorefront")) <= N("setStorefront")
    /\ N("setStorefront") = 1 =>
         /\ \A f \in Prompts \cup RemoteCalls : Completed(f) = N(f)
         /\ \E i \in 1..Len(log) :
              /\ log[i] = "setStorefront"
              /\ \A j \in (i + 1)..Len(log) : log[j] = Ok("setStorefront")
         /\ selectedStorefront # NoStorefront
    /\ N(Ok("setStorefront")) = 1 <=> ReturnedStorefront
    /\ N(Ok("setStorefront")) = 1 => stored = outcome.value /\ stored = selectedStorefront
    /\ N(Ok("setStorefront")) = 0 => stored = config.storefront

C1_Witness ==
    /\ pc = "done"
    /\ Linked
    /\ Has(Ok("waitForJob"))
    /\ N(Ok("setStorefront")) = 1
    /\ stored = Created(projectName)

\* The creator came back with a storefront and no jobId.
CreatedNoJob == Has(Ok("createStorefront")) /\ ~Truthy(jobId)

\* C2 as stated: once the creator has returned without a jobId, the waiter is
\* never called and the pipeline has failed with UnknownError.
C2_NoJobFailsWithUnknownError ==
    CreatedNoJob =>
        /\ N("waitForJob") = 0
        /\ pc = "done"
        /\ outcome = Threw(UnknownError)

\* C2 as amended: once the creator has returned without a jobId, the waiter
\* is never called, the final check passes, the creator's storefront is the
\* selection handed to setStorefront, and the invocation never throws: when it
\* ends uninterrupted it returns that storefront, persisted.
C2_NoJobReturnsCreatedStorefront ==
    CreatedNoJob =>
        /\ N("waitForJob") = 0
        /\ storefront = Created(projectName)
        /\ selectedStorefront = storefront
        /\ N("setStorefront") = 1
        /\ outcome.kind # "threw"
        /\ pc = "done" => outcome = Returned(storefront) /\ stored = storefront

C2_Witness ==
    /\ CreatedNoJob
    /\ pc = "done"
    /\ outcome = Returned(Created(projectName))

\* C3: once waitForJob has thrown (a jobId having been returned), the held
\* storefront is cleared, the invocation has ended with UnknownError and not
\* the waiter's error, and setStorefront was not called: the store is unchanged.
C3_WaiterThrowBecomesUnknownError ==
    Has(Thrown("waitForJob")) =>
        /\ Truthy(jobId)
        /\ storefront = NoStorefront
        /\ pc = "done"
        /\ outcome = Threw(UnknownError)
        /\ N("setStorefront") = 0
        /\ stored = config.storefront

C3_Witness ==
    /\ Has(Thrown("waitForJob"))
    /\ pc = "done"
    /\ Linked

\* C4: once createStorefront has thrown, waitForJob is never called and the
\* invocation has ended with the creator's own error, not UnknownError.
C4_CreatorThrowPropagates ==
    Has(Thrown("createStorefront")) =>
        /\ N("waitForJob") = 0
        /\ pc = "done"
        /\ outcome = Threw("createStorefront error")
        /\ outcome.error # UnknownError
        /\ N("setStorefront") = 0
        /\ stored = config.storefront

C4_Witness ==
    /\ Has(Thrown("createStorefront"))
    /\ pc = "done"
    /\ N("createStorefront") = 1

\* C5: with config.shop missing, nothing is ever called (no fetch, no
\* creation, no prompt, no write) and the invocation, once begun, has failed
\* with the "No shop found" AbortError.
C5_NoShopAbortsBeforeAnyCall ==
    ~Truthy(config.shop) =>
        /\ log = <<>>
        /\ stored = config.storefront
        /\ pc # "start" => pc = "done" /\ outcome = Threw(NoShopError)

C5_Witness ==
    /\ ~Truthy(config.shop)
    /\ Linked
    /\ ~force
    /\ pc = "done"

\* C6: linked, force false and the overwrite declined: the invocation has
\* returned undefined, the store is unchanged, and neither the list fetch,
\* nor the creation, nor setStorefront was called.
C6_DeclineIsNoOp ==
    (Linked /\ ~force /\ Has(Answer("renderConfirmationPrompt", "false"))) =>
        /\ pc = "done"
        /\ outcome = Returned(NoStorefront)
        /\ stored = config.storefront
        /\ selectedStorefront = NoStorefront
        /\ N("getStorefronts") = 0
        /\ N("createNewStorefront") = 0
        /\ N("createStorefront") = 0
        /\ N("setStorefront") = 0

C6_Witness ==
    /\ Linked
    /\ ~force
    /\ Has(Answer("renderConfirmationPrompt", "false"))
    /\ pc = "done"

\* Some fetched storefront is titled t.
HasTitle(list, t) == \E k \in 1..Len(list) : list[k].title = t

\* C7: with a (non-empty) flagStorefront the select prompt and the creation
\* pipeline are never used; once the list has arrived, a list with a matching
\* title selects the first storefront of that title, without a warning, hands
\* it to setStorefront, and the finished invocation returns it, persisted; a
\* list without one ends the invocation with undefined, one warning and no
\* write.
C7_FlagSelectsByExactTitle ==
    Truthy(flagStorefront) =>
        /\ N("renderSelectPrompt") = 0
        /\ N("createNewStorefront") = 0
        /\ N("createStorefront") = 0
        /\ Has(Ok("getStorefronts")) =>
             IF HasTitle(storefronts, flagStorefront)
             THEN /\ \E k \in 1..Len(storefronts) :
                       /\ selectedStorefront = storefronts[k]
                       /\ \A m \in 1..(k - 1) : storefronts[m].title # flagStorefront
                  /\ selectedStorefront.title = flagStorefront
                  /\ N("setStorefront") = 1
                  /\ N("renderWarning") = 0
                  /\ pc = "done" =>
                       outcome = Returned(selectedStorefront) /\ stored = selectedStorefront
             ELSE /\ pc = "done"
                  /\ outcome = Returned(NoStorefront)
                  /\ N("renderWarning") = 1
                  /\ N("setStorefront") = 0
                  /\ stored = config.storefront

C7_Witness ==
    /\ Truthy(flagStorefront)
    /\ pc = "done"
    /\ Len(storefronts) = 2
    /\ storefronts[1].title # flagStorefront
    /\ outcome = Returned(storefronts[2])
    /\ stored = storefronts[2]

\* C8 as stated: in an invocation that has begun, the confirmation was
\* prompted exactly when a storefront is linked and force is false (so never
\* with force).
C8_PromptedIffLinkedAndNotForce ==
    pc # "start" =>
        /\ Has("renderConfirmationPrompt") <=> (Linked /\ ~force)
        /\ (Linked /\ force) => ~Has("renderConfirmationPrompt")

\* C8 as amended: in an invocation that has begun, the confirmation was
\* prompted (once) exactly when config.shop is set, a storefront is linked and
\* force is false; with force it is never prompted.
C8_PromptedIffShopLinkedAndNotForce ==
    /\ N("renderConfirmationPrompt") <= 1
    /\ (Linked /\ force) => ~Has("renderConfirmationPrompt")
    /\ pc # "start" =>
         (Has("renderConfirmationPrompt") <=> (Truthy(config.shop) /\ Linked /\ ~force))

C8_Witness ==
    /\ Linked
    /\ force
    /\ Truthy(config.shop)
    /\ Has(Ok("getStorefronts"))
    /\ ~Has("renderConfirmationPrompt")

\* C9: the list is fetched, the creator called and the waiter called at most
\* once each; once the user has picked the "create new" sentinel, the creation
\* pipeline has been entered exactly once and the list fetched exactly once.
C9_AtMostOnceEach ==
    /\ N("getStorefronts") <= 1
    /\ N("createNewStorefront") <= 1
    /\ N("createStorefront") <= 1
    /\ N("waitForJob") <= 1
    /\ Has(Answer("renderSelectPrompt", "null")) =>
         N("createNewStorefront") = 1 /\ N("getStorefronts") = 1
    /\ Has("createNewStorefront") => Has(Answer("renderSelectPrompt", "null"))

C9_Witness ==
    /\ Has(Answer("renderSelectPrompt", "null"))
    /\ Has(Ok("waitForJob"))
    /\ pc = "done"
    /\ ReturnedStorefront

----------------------------------------------------------------------------
\* The demo-store worker: export default { async fetch(request, env, ctx) }

\* env?.SESSION_SECRET: env or the secret missing, empty, or set.
SessionSecrets == {Undef, "", "secret"}

\* Statuses the Remix request handler answers with.
AppStatuses == {200, 302, 404, 500}
\* Statuses storefrontRedirect resolves to: a redirect, or the 404 passed through.
RedirectStatuses == {301, 404}

\* The invocation of linkStorefront is not part of the worker's behaviours.
LinkIdle ==
    /\ config = [shop |-> Undef, storefront |-> NoStorefront]
    /\ force = FALSE
    /\ flagStorefront = Undef
    /\ pc = "start"
    /\ storefronts = <<>>
    /\ selectedStorefront = NoStorefront
    /\ projectName = Undef
    /\ storefront = NoStorefront
    /\ jobId = Undef
    /\ stored = NoStorefront
    /\ outcome = Running
    /\ log = <<>>

WorkerInit ==
    /\ wpc = "idle"
    /\ env \in SessionSecrets
    /\ cachesOpen = "none"
    /\ sessionInit = "none"
    /\ response = 0
    /\ settled = "none"
    /\ errors = 0
    /\ served = <<>>

InitWorker == LinkIdle /\ WorkerInit

\* The promise returned by fetch() settles; the worker is ready for the next
\* request. `failure` names what failed during the request, if anything.
Settle(how, status, failure) ==
    /\ served' = Append(served, [settled |-> how, status |-> status, failure |-> failure])
    /\ wpc' = "idle"
    /\ cachesOpen' = "none"
    /\ sessionInit' = "none"
    /\ response' = 0
    /\ settled' = how

\* Lines 98-102: the catch clause logs the error and answers 500.
Catch(failure) ==
    /\ errors' = errors + 1
    /\ Settle("fulfilled", 500, failure)

\* Line 94: `return storefrontRedirect(...)`, the call's promise is returned
\* without being awaited, so the try block is left as soon as the call returns.
ReturnStorefrontRedirect ==
    /\ wpc' = "storefrontRedirect"
    /\ UNCHANGED <<cachesOpen, sessionInit, settled, errors, served>>

\* The promise of fetch() settles without passing through the catch clause.
Respond(how, status, failure) ==
    /\ errors' = errors
    /\ Settle(how, status, failure)

\* Lines 22-34, up to the await of Promise.all.
FetchEnter ==
    /\ wpc = "idle"
    /\ Len(served) < MaxRequests
    /\ IF ~Truthy(env)
       THEN Catch("SESSION_SECRET")
       ELSE /\ wpc' = "Promise.all"
            /\ cachesOpen' = "pending"
            /\ sessionInit' = "pending"
            /\ response' = 0
            /\ settled' = "none"
            /\ errors' = errors
            /\ served' = served
    /\ UNCHANGED <<linkVars, env>>

\* Line 32: caches.open('hydrogen') settles.
CachesOpenSettle ==
    /\ wpc = "Promise.all"
    /\ cachesOpen = "pending"
    /\ cachesOpen' \in {"fulfilled", "rejected"}
    /\ UNCHANGED <<linkVars, wpc, env, sessionInit, response, settled, errors, served>>

\* Line 33: HydrogenSession.init(...) settles.
SessionInitSettle ==
    /\ wpc = "Promise.all"
    /\ sessionInit = "pending"
    /\ sessionInit' \in {"fulfilled", "rejected"}
    /\ UNCHANGED <<linkVars, wpc, env, cachesOpen, response, settled, errors, served>>

\* Lines 31-86: Promise.all rejects with the first rejection, or fulfils when
\* both did; then the client, the cart and the handler are built (any of
\* which may throw) and handleRequest is called.
PromiseAllResume ==
    /\ wpc = "Promise.all"
    /\ \/ /\ "rejected" \in {cachesOpen, sessionInit}
          /\ Catch("init")
       \/ /\ cachesOpen = "fulfilled" /\ sessionInit = "fulfilled"
          /\ \E threw \in BOOLEAN :
               IF threw
               THEN Catch("setup")
               ELSE /\ wpc' = "handleRequest"
                    /\ UNCHANGED <<cachesOpen, sessionInit, response, settled, errors, served>>
    /\ UNCHANGED <<linkVars, env>>

\* Lines 86-97: the app answered.
HandleRequestReturn ==
    /\ wpc = "handleRequest"
    /\ \E status \in AppStatuses :
         IF status = 404
         THEN /\ response' = status
              /\ \E threwSync \in BOOLEAN :
                   IF threwSync
                   THEN Catch("storefrontRedirect")
                   ELSE ReturnStorefrontRedirect
         ELSE Respond("fulfilled", status, "none")
    /\ UNCHANGED <<linkVars, env>>

\* Line 86 rejects.
HandleRequestThrow ==
    /\ wpc = "handleRequest"
    /\ Catch("handleRequest")
    /\ UNCHANGED <<linkVars, env>>

\* The promise returned at line 94 fulfils: fetch() resolves to its Response.
StorefrontRedirectFulfil ==
    /\ wpc = "storefrontRedirect"
    /\ \E status \in RedirectStatuses : Respond("fulfilled", status, "none")
    /\ UNCHANGED <<linkVars, env>>

\* The promise returned at line 94 rejects: the try block has been left, so
\* the promise of fetch() follows it.
StorefrontRedirectReject ==
    /\ wpc = "storefrontRedirect"
    /\ Respond("rejected", 0, "storefrontRedirect")
    /\ UNCHANGED <<linkVars, env>>

NextWorker ==
    \/ FetchEnter
    \/ CachesOpenSettle
    \/ SessionInitSettle
    \/ PromiseAllResume
    \/ HandleRequestReturn
    \/ HandleRequestThrow
    \/ StorefrontRedirectFulfil
    \/ StorefrontRedirectReject

SpecWorker == InitWorker /\ [][NextWorker]_vars

----------------------------------------------------------------------------
\* Properties of the worker's fetch handler (under SpecWorker).

\* C10: every fetch() call resolves to a Response and never rejects, and
\* every call during which something failed is answered with status 500.
C10_FetchAlwaysResolves ==
    \A k \in 1..Len(served) :
        /\ served[k].settled = "fulfilled"
        /\ served[k].failure # "none" => served[k].status = 500

====
